---- MODULE Spec2Model ----
(***************************************************************************)
(* A model of src/src/chain/abi.ts: the ABI schema store, the struct       *)
(* flattener (resolveStruct), the type resolver (resolveType / resolve),   *)
(* the type-name grammar of ABI.ResolvedType and the Variant value.        *)
(*                                                                         *)
(* Strings are sequences of one-character strings, so that endsWith, slice *)
(* and += are computed as the code computes them.  An optional JavaScript  *)
(* value (T | undefined) is a record [some, val].  Objects live in `heap`; *)
(* an object reference is its index in the heap.                           *)
(*                                                                         *)
(* The pass-local cache `types` is a plain JavaScript object; the model    *)
(* covers type names that are not members of Object.prototype.             *)
(***************************************************************************)
EXTENDS Integers, Sequences, FiniteSets, TLC

VARIABLES
    abi,        \* the schema store: [types, structs, variants]
    pc,         \* "idle" | "resolve" | "children": position of resolveType
    request,    \* the name given to the running / last resolveType call
    types,      \* the pass-local cache: full type name -> object reference
    ctx,        \* the pass-local id counter: [id |-> n]
    heap,       \* the ABI.ResolvedType objects allocated so far
    stack,      \* the active resolve calls that are resolving children
    arg,        \* the name argument of the resolve call about to run
    returned,   \* the finished resolveType calls: [name, type (reference)]
    fullName,   \* grammar: the string given to new ABI.ResolvedType
    parsed,     \* grammar: the constructed node, if any
    rendered,   \* grammar: the value read from typeName, if any
    structName, \* flattener: the name given to resolveStruct
    flat,       \* flattener: the value resolveStruct returned, if called
    abiVariant, \* Variant: the subclass's static abiVariant list
    variantArg, \* Variant: the [tag, payload] pair given to the constructor
    variantObj, \* Variant: the constructed object or the thrown error
    vname       \* Variant: the value read from variantName, if any

resolverVars == <<pc, request, types, ctx, heap, stack, arg, returned>>
grammarVars == <<fullName, parsed, rendered>>
flattenVars == <<structName, flat>>
variantVars == <<abiVariant, variantArg, variantObj, vname>>
vars == <<abi, resolverVars, grammarVars, flattenVars, variantVars>>

(***************************************************************************)
(* Bounds of the model.                                                    *)
(***************************************************************************)
MaxLen == 5             \* longest string given to the type-name grammar
MaxAliases == 1         \* longest alias list of a schema
MaxStructs == 2         \* longest struct list of a schema
MaxFields == 1          \* longest own field list of a struct (resolver)
MaxOwnFields == 2       \* longest own field list of a struct (flattener)
MaxVariants == 1        \* longest variant list of a schema
MaxAlts == 1            \* longest alternative list of a schema variant
MaxCalls == 2           \* resolveType calls made on one schema
MaxVariantTypes == 2    \* longest abiVariant list of a Variant subclass

(***************************************************************************)
(* Strings.                                                                *)
(***************************************************************************)
Chars == {"f", "g", "[", "]", "?", "$"}

RECURSIVE StringsOfLen(_)
StringsOfLen(n) ==
    IF n = 0 THEN {<<>>}
    ELSE {Append(s, c) : s \in StringsOfLen(n - 1), c \in Chars}

Strings == UNION {StringsOfLen(n) : n \in 0..MaxLen}

\* String.prototype.endsWith
endsWith(s, suffix) ==
    /\ Len(s) >= Len(suffix)
    /\ SubSeq(s, Len(s) - Len(suffix) + 1, Len(s)) = suffix

\* name.slice(0, -n)
slice(s, n) == SubSeq(s, 1, IF Len(s) >= n THEN Len(s) - n ELSE 0)

\* Optional values: undefined (NoRef where the value is an object reference).
Undefined == [some |-> FALSE, val |-> <<>>]
NoRef == [some |-> FALSE, val |-> 0]
Some(v) == [some |-> TRUE, val |-> v]

(***************************************************************************)
(* ABI.ResolvedType: constructor and the typeName getter.                  *)
(***************************************************************************)
\* The constructor with the strip order "?" before "$" (a faulty variant).
ResolvedTypeSwapped(name0, id) ==
    LET isOptional == endsWith(name0, <<"?">>)
        name1 == IF isOptional THEN slice(name0, 1) ELSE name0
        isExtension == endsWith(name1, <<"$">>)
        name2 == IF isExtension THEN slice(name1, 1) ELSE name1
        isArray == endsWith(name2, <<"[", "]">>)
        name3 == IF isArray THEN slice(name2, 2) ELSE name2
    IN  [name |-> name3, id |-> id, isArray |-> isArray,
         isOptional |-> isOptional, isExtension |-> isExtension,
         ref |-> NoRef, fields |-> Undefined, variant |-> Undefined]

ResolvedType(name0, id) ==
    LET isExtension == endsWith(name0, <<"$">>)
        name1 == IF isExtension THEN slice(name0, 1) ELSE name0
        isOptional == endsWith(name1, <<"?">>)
        name2 == IF isOptional THEN slice(name1, 1) ELSE name1
        isArray == endsWith(name2, <<"[", "]">>)
        name3 == IF isArray THEN slice(name2, 2) ELSE name2
    IN  [name |-> name3, id |-> id, isArray |-> isArray,
         isOptional |-> isOptional, isExtension |-> isExtension,
         ref |-> NoRef, fields |-> Undefined, variant |-> Undefined]

typeName(t) ==
    LET rv1 == IF t.isArray THEN t.name \o <<"[", "]">> ELSE t.name
        rv2 == IF t.isOptional THEN rv1 \o <<"?">> ELSE rv1
    IN  IF t.isExtension THEN rv2 \o <<"$">> ELSE rv2

(***************************************************************************)
(* The schema store.  A schema is [types, structs, variants]; the action,  *)
(* table and clause lists play no part in resolution.                      *)
(***************************************************************************)
SeqsUpTo(S, n) == UNION {[1..k -> S] : k \in 0..n}

Min(S) == CHOOSE x \in S : \A y \in S : x <= y

BaseNames == {<<"f">>, <<"g">>}
TypeNames == {<<"f">>, <<"f", "[", "]">>, <<"g">>}

TypeDefs == [new_type_name : BaseNames, type : TypeNames]
Fields == [name : {"x"}, type : TypeNames]
Structs ==
    [name : BaseNames, base : BaseNames \cup {<<>>},
     fields : SeqsUpTo(Fields, MaxFields)]
Variants == [name : BaseNames, types : SeqsUpTo(TypeNames, MaxAlts)]

\* The schemas the resolver is run on.
Defs ==
    [types : SeqsUpTo(TypeDefs, MaxAliases),
     structs : SeqsUpTo(Structs, MaxStructs),
     variants : SeqsUpTo(Variants, MaxVariants)]

\* The schemas the flattener alone is run on: longer own field lists, with
\* fields that can be told apart.
OwnFields == [name : {"x", "y", "z"}, type : {<<"g">>}]
FlatStructs ==
    [name : BaseNames, base : BaseNames \cup {<<>>},
     fields : SeqsUpTo(OwnFields, MaxOwnFields)]
FlatDefs ==
    [types : {<<>>}, structs : SeqsUpTo(FlatStructs, MaxStructs),
     variants : {<<>>}]

\* this.types.find((typeDef) => typeDef.new_type_name == name)
findAlias(name) ==
    LET hits == {i \in DOMAIN abi.types : abi.types[i].new_type_name = name}
    IN  IF hits = {} THEN Undefined ELSE Some(abi.types[Min(hits)])

getStruct(name) ==
    LET hits == {i \in DOMAIN abi.structs : abi.structs[i].name = name}
    IN  IF hits = {} THEN Undefined ELSE Some(abi.structs[Min(hits)])

getVariant(name) ==
    LET hits == {i \in DOMAIN abi.variants : abi.variants[i].name = name}
    IN  IF hits = {} THEN Undefined ELSE Some(abi.variants[Min(hits)])

(***************************************************************************)
(* The struct flattener.                                                   *)
(***************************************************************************)
\* The inner loop with push in place of unshift (a faulty variant).
pushAll(rv, fields, i) == rv \o fields

\* for (let i = fields.length - 1; i >= 0; i--) rv.unshift(fields[i])
\* (i is the 0-based index of the code).
RECURSIVE unshiftAll(_, _, _)
unshiftAll(rv, fields, i) ==
    IF i < 0 THEN rv ELSE unshiftAll(<<fields[i + 1]>> \o rv, fields, i - 1)

\* The loop returning what it has gathered on a circular ref (a faulty variant).
RECURSIVE resolveStructLoopPartial(_, _, _)
resolveStructLoopPartial(top, rv, seen) ==
    LET rv1 == unshiftAll(rv, top.fields, Len(top.fields) - 1)
        seen1 == seen \cup {top.name}
        next == getStruct(top.base)
    IN  IF top.base \in seen1 THEN Some(rv1)
        ELSE IF next.some THEN resolveStructLoopPartial(next.val, rv1, seen1)
        ELSE Some(rv1)

\* One turn of the do-while loop, and the turns after it.
RECURSIVE resolveStructLoop(_, _, _)
resolveStructLoop(top, rv, seen) ==
    LET rv1 == unshiftAll(rv, top.fields, Len(top.fields) - 1)
        seen1 == seen \cup {top.name}
        next == getStruct(top.base)
    IN  IF top.base \in seen1 THEN Undefined   \* circular ref
        ELSE IF next.some THEN resolveStructLoop(next.val, rv1, seen1)
        ELSE Some(rv1)

\* resolveStruct returning undefined for an empty field list (a faulty variant).
resolveStructEmptyAbsent(name) ==
    LET top == getStruct(name)
        rv == IF top.some THEN resolveStructLoop(top.val, <<>>, {})
              ELSE Undefined
    IN  IF rv.some /\ rv.val = <<>> THEN Undefined ELSE rv

resolveStruct(name) ==
    LET top == getStruct(name)
    IN  IF ~top.some THEN Undefined
        ELSE resolveStructLoop(top.val, <<>>, {})

(***************************************************************************)
(* The Variant value.  A type descriptor is [type, array, optional,        *)
(* extension]; abiTypeString renders it to its canonical type name.        *)
(***************************************************************************)
Descriptors ==
    [type : {<<"f">>, <<"g">>, <<"f", "[", "]">>}, array : BOOLEAN,
     optional : {FALSE}, extension : {FALSE}]
Tags == {<<"f">>, <<"g">>, <<"f", "[", "]">>, <<"g", "[", "]">>, <<"?">>}
Payloads == {"p"}

abiTypeString(d) ==
    LET n1 == IF d.array THEN d.type \o <<"[", "]">> ELSE d.type
        n2 == IF d.optional THEN n1 \o <<"?">> ELSE n1
    IN  IF d.extension THEN n2 \o <<"$">> ELSE n2

\* Array.prototype.findIndex with the test (t) => t === x: the 0-based
\* index of the first match, -1 when there is none.
findIndex(seq, x) ==
    LET hits == {i \in DOMAIN seq : seq[i] = x}
    IN  IF hits = {} THEN -1 ELSE Min(hits) - 1

NoVariant == [status |-> "none", value |-> "", variantIdx |-> -1]

\* The constructor with the range check 0 >= variantIdx (a faulty variant).
VariantRejectsFirst(list, variant) ==
    LET variantIdx ==
            findIndex([i \in DOMAIN list |-> abiTypeString(list[i])],
                      variant[1])
    IN  IF 0 >= variantIdx \/ Len(list) <= variantIdx
        THEN [status |-> "Unknown variant", value |-> "", variantIdx |-> -1]
        ELSE [status |-> "ok", value |-> variant[2],
              variantIdx |-> variantIdx]

\* new Variant([tag, payload]) of a subclass whose abiVariant is `list`:
\* the object, or the Error thrown.
Variant(list, variant) ==
    LET variantIdx ==
            findIndex([i \in DOMAIN list |-> abiTypeString(list[i])],
                      variant[1])
    IN  IF 0 > variantIdx \/ Len(list) <= variantIdx
        THEN [status |-> "Unknown variant", value |-> "", variantIdx |-> -1]
        ELSE [status |-> "ok", value |-> variant[2],
              variantIdx |-> variantIdx]

\* The getter reading the descriptor's type without its suffixes (a faulty variant).
variantNameBare(list, obj) == list[obj.variantIdx + 1].type

variantName(list, obj) == abiTypeString(list[obj.variantIdx + 1])

(***************************************************************************)
(* Initial states.                                                         *)
(***************************************************************************)
EmptyDef == [types |-> <<>>, structs |-> <<>>, variants |-> <<>>]
NotCalled == [called |-> FALSE, result |-> Undefined]

ResolverIdle ==
    /\ pc = "idle"
    /\ request = <<>>
    /\ types = <<>>
    /\ ctx = [id |-> 0]
    /\ heap = <<>>
    /\ stack = <<>>
    /\ arg = <<>>
    /\ returned = <<>>

GrammarIdle == fullName = <<>> /\ parsed = Undefined /\ rendered = Undefined

FlattenIdle == structName = <<>> /\ flat = NotCalled

VariantIdle ==
    /\ abiVariant = <<>>
    /\ variantArg = <<<<>>, "p">>
    /\ variantObj = NoVariant
    /\ vname = Undefined

(***************************************************************************)
(* The type-name grammar on its own: a string is parsed by the constructor *)
(* and written back by typeName.                                           *)
(***************************************************************************)
GrammarInit ==
    /\ abi = EmptyDef
    /\ fullName \in Strings
    /\ parsed = Undefined
    /\ rendered = Undefined
    /\ ResolverIdle /\ FlattenIdle /\ VariantIdle

Construct ==
    /\ ~parsed.some
    /\ parsed' = Some(ResolvedType(fullName, 0))
    /\ UNCHANGED <<abi, fullName, rendered, resolverVars, flattenVars,
                   variantVars>>

ReadTypeName ==
    /\ parsed.some
    /\ ~rendered.some
    /\ rendered' = Some(typeName(parsed.val))
    /\ UNCHANGED <<abi, fullName, parsed, resolverVars, flattenVars,
                   variantVars>>

GrammarNext == Construct \/ ReadTypeName

GrammarSpec == GrammarInit /\ [][GrammarNext]_vars

(***************************************************************************)
(* The struct flattener on its own.                                        *)
(***************************************************************************)
FlattenInit ==
    /\ abi \in FlatDefs
    /\ structName \in BaseNames
    /\ flat = NotCalled
    /\ ResolverIdle /\ GrammarIdle /\ VariantIdle

CallResolveStruct ==
    /\ ~flat.called
    /\ flat' = [called |-> TRUE, result |-> resolveStruct(structName)]
    /\ UNCHANGED <<abi, structName, resolverVars, grammarVars, variantVars>>

FlattenNext == CallResolveStruct

FlattenSpec == FlattenInit /\ [][FlattenNext]_vars

(***************************************************************************)
(* The Variant value on its own.                                           *)
(***************************************************************************)
VariantInit ==
    /\ abi = EmptyDef
    /\ abiVariant \in SeqsUpTo(Descriptors, MaxVariantTypes)
    /\ variantArg \in Tags \X Payloads
    /\ variantObj = NoVariant
    /\ vname = Undefined
    /\ ResolverIdle /\ GrammarIdle /\ FlattenIdle

NewVariant ==
    /\ variantObj.status = "none"
    /\ variantObj' = Variant(abiVariant, variantArg)
    /\ UNCHANGED <<abi, abiVariant, variantArg, vname, resolverVars,
                   grammarVars, flattenVars>>

ReadVariantName ==
    /\ variantObj.status = "ok"
    /\ ~vname.some
    /\ vname' = Some(variantName(abiVariant, variantObj))
    /\ UNCHANGED <<abi, abiVariant, variantArg, variantObj, resolverVars,
                   grammarVars, flattenVars>>

VariantNext == NewVariant \/ ReadVariantName

VariantSpec == VariantInit /\ [][VariantNext]_vars

(***************************************************************************)
(* The type resolver.  resolve is recursive and shares the cache `types`   *)
(* and the counter `ctx` between its calls, so it is modelled call by      *)
(* call: `stack` holds, for each resolve call that is resolving the        *)
(* children of its node, the node (type), which member the children go to  *)
(* (kind), the children's type names (items), the field names (for         *)
(* fields) and the children resolved so far (done).  A constant of the     *)
(* code (const type = ..., const alias = ...) is written \E x \in {e}.      *)
(***************************************************************************)
\* const existing = types[name]
existing(name) ==
    IF name \in DOMAIN types THEN [some |-> TRUE, val |-> types[name]]
    ELSE NoRef

\* The cache left as it was (a faulty variant).
registerNothing(tys, type, ref) == tys

\* The cache keyed by the base name, without the suffixes (a faulty variant).
registerByBase(tys, type, ref) == (type.name :> ref) @@ tys

\* types[type.typeName] = type
register(tys, type, ref) == (typeName(type) :> ref) @@ tys

\* The id counter left as it was (a faulty variant).
sameId(c) == c.id

\* ++ctx.id
nextId(c) == c.id + 1

\* resolveType with the counter carried over from the call before (a
\* faulty variant).
resolveTypeKeepingCtx(name) ==
    /\ pc = "idle"
    /\ request' = name
    /\ types' = <<>>
    /\ ctx' = ctx
    /\ arg' = name
    /\ stack' = <<>>
    /\ pc' = "resolve"
    /\ UNCHANGED <<abi, heap, returned, grammarVars, flattenVars, variantVars>>

\* resolveType(name): a fresh cache and counter, then resolve.
resolveType(name) ==
    /\ pc = "idle"
    /\ request' = name
    /\ types' = <<>>
    /\ ctx' = [id |-> 0]
    /\ arg' = name
    /\ stack' = <<>>
    /\ pc' = "resolve"
    /\ UNCHANGED <<abi, heap, returned, grammarVars, flattenVars, variantVars>>

\* The first call made on the schema.
ResolveType(name) == returned = <<>> /\ resolveType(name)

\* A later call on the same schema.
ResolveTypeAgain(name) ==
    /\ returned # <<>>
    /\ Len(returned) < MaxCalls
    /\ resolveType(name)

\* A resolve call returns `ref`: to the resolve call under it, which goes on
\* with its next child, or to resolveType, which returns it.
ReturnTo(stk, ref) ==
    IF stk = <<>>
    THEN /\ stack' = <<>>
         /\ pc' = "idle"
         /\ returned' = Append(returned, [name |-> request, type |-> ref])
    ELSE /\ stack' = [stk EXCEPT ![Len(stk)].done = Append(@, ref)]
         /\ pc' = "children"
         /\ UNCHANGED returned

\* new ABI.ResolvedType(name, ++ctx.id) and its registration in the cache.
Allocate(type) ==
    /\ ctx' = [id |-> type.id]
    /\ heap' = Append(heap, type)
    /\ types' = register(types, type, Len(heap) + 1)

Frame(kind, items, fieldNames) ==
    [type |-> Len(heap) + 1, kind |-> kind, items |-> items,
     fieldNames |-> fieldNames, done |-> <<>>]

\* if (existing) return existing
ResolveExisting ==
    /\ pc = "resolve"
    /\ existing(arg).some
    /\ ReturnTo(stack, existing(arg).val)
    /\ UNCHANGED <<abi, request, types, ctx, heap, arg, grammarVars,
                   flattenVars, variantVars>>

\* A new node whose base name is an alias: its target is resolved next.
ResolveAlias ==
    /\ pc = "resolve"
    /\ ~existing(arg).some
    /\ \E type \in {ResolvedType(arg, nextId(ctx))} :
       \E alias \in {findAlias(type.name)} :
           /\ alias.some
           /\ Allocate(type)
           /\ stack' = Append(stack, Frame("ref", <<alias.val.type>>, <<>>))
    /\ pc' = "children"
    /\ UNCHANGED <<abi, request, arg, returned, grammarVars, flattenVars,
                   variantVars>>

\* A new node whose base name is a struct with a field list: the field
\* types are resolved next, in field order.
ResolveFields ==
    /\ pc = "resolve"
    /\ ~existing(arg).some
    /\ \E type \in {ResolvedType(arg, nextId(ctx))} :
       \E fields \in {resolveStruct(type.name)} :
           /\ ~findAlias(type.name).some
           /\ fields.some
           /\ Allocate(type)
           /\ stack' = Append(stack,
                  Frame("fields",
                        [i \in DOMAIN fields.val |-> fields.val[i].type],
                        [i \in DOMAIN fields.val |-> fields.val[i].name]))
    /\ pc' = "children"
    /\ UNCHANGED <<abi, request, arg, returned, grammarVars, flattenVars,
                   variantVars>>

\* A new node whose base name is a variant: the alternatives are resolved
\* next, in declared order.
ResolveVariant ==
    /\ pc = "resolve"
    /\ ~existing(arg).some
    /\ \E type \in {ResolvedType(arg, nextId(ctx))} :
       \E variant \in {getVariant(type.name)} :
           /\ ~findAlias(type.name).some
           /\ ~resolveStruct(type.name).some
           /\ variant.some
           /\ Allocate(type)
           /\ stack' = Append(stack, Frame("variant", variant.val.types, <<>>))
    /\ pc' = "children"
    /\ UNCHANGED <<abi, request, arg, returned, grammarVars, flattenVars,
                   variantVars>>

\* builtin or unknown type
ResolveBuiltin ==
    /\ pc = "resolve"
    /\ ~existing(arg).some
    /\ \E type \in {ResolvedType(arg, nextId(ctx))} :
           /\ ~findAlias(type.name).some
           /\ ~resolveStruct(type.name).some
           /\ ~getVariant(type.name).some
           /\ Allocate(type)
           /\ ReturnTo(stack, Len(heap) + 1)
    /\ UNCHANGED <<abi, request, arg, grammarVars, flattenVars, variantVars>>

\* The next child of the topmost call: this.resolve({name: ..., types}, ctx)
CallChild ==
    /\ pc = "children"
    /\ LET f == stack[Len(stack)]
       IN  /\ Len(f.done) < Len(f.items)
           /\ arg' = f.items[Len(f.done) + 1]
    /\ pc' = "resolve"
    /\ UNCHANGED <<abi, request, types, ctx, heap, stack, returned,
                   grammarVars, flattenVars, variantVars>>

\* The node of the topmost call with its resolved children stored.
Filled(f) ==
    IF f.kind = "ref" THEN [heap[f.type] EXCEPT !.ref = Some(f.done[1])]
    ELSE IF f.kind = "fields"
    THEN [heap[f.type] EXCEPT
            !.fields = Some([i \in DOMAIN f.done |->
                                [name |-> f.fieldNames[i], type |-> f.done[i]]])]
    ELSE [heap[f.type] EXCEPT !.variant = Some(f.done)]

\* All children resolved: type.ref / type.fields / type.variant is
\* assigned and the call returns its node.
Complete ==
    /\ pc = "children"
    /\ LET f == stack[Len(stack)]
       IN  /\ Len(f.done) = Len(f.items)
           /\ heap' = [heap EXCEPT ![f.type] = Filled(f)]
           /\ ReturnTo(SubSeq(stack, 1, Len(stack) - 1), f.type)
    /\ UNCHANGED <<abi, request, types, ctx, arg, grammarVars, flattenVars,
                   variantVars>>

\* The names within the struct list are unique, as the schema store expects
\* (the flattener on its own is run on lists with repeated names too).
uniqueNames(structs) ==
    \A i, j \in DOMAIN structs : i # j => structs[i].name # structs[j].name

Init ==
    /\ abi \in Defs
    /\ uniqueNames(abi.structs)
    /\ ResolverIdle /\ GrammarIdle /\ FlattenIdle /\ VariantIdle

Next ==
    \/ \E name \in TypeNames : ResolveType(name)
    \/ ResolveExisting
    \/ ResolveAlias
    \/ ResolveFields
    \/ ResolveVariant
    \/ ResolveBuiltin
    \/ CallChild
    \/ Complete

Spec == Init /\ [][Next]_vars

\* resolve is synchronous: a call that has begun is run to its end.
FairSpec == Spec /\ WF_vars(Next)

\* Several resolveType calls, one after the other, on one schema.
TwoCallInit == Init /\ Len(abi.structs) <= 1

TwoCallNext == Next \/ \E name \in TypeNames : ResolveTypeAgain(name)

TwoCallSpec == TwoCallInit /\ [][TwoCallNext]_vars

(***************************************************************************)
(* Claims about the type-name grammar (GrammarSpec).                       *)
(***************************************************************************)
PlainBases == {<<>>, <<"f">>, <<"g">>, <<"f", "g">>}

Markers(a, o, e) ==
    (IF a THEN <<"[", "]">> ELSE <<>>) \o (IF o THEN <<"?">> ELSE <<>>)
        \o (IF e THEN <<"$">> ELSE <<>>)

IsCanonical(s) ==
    \E b \in PlainBases, a, o, e \in BOOLEAN : s = b \o Markers(a, o, e)

Width(b, n) == IF b THEN n ELSE 0

\* C7: the constructor strips at most one "$", then at most one "?", then
\* at most one "[]" from the end of the full name and sets the three flags
\* accordingly; a name made of a base and markers in the order "[]", "?",
\* "$" parses to that base and those flags, and typeName gives back exactly
\* the input string.
C7_CanonicalRoundTrip ==
    /\ parsed.some =>
          LET t == parsed.val
          IN  /\ Len(fullName) = Len(t.name) + Width(t.isArray, 2)
                     + Width(t.isOptional, 1) + Width(t.isExtension, 1)
              /\ fullName = t.name
                     \o Markers(t.isArray, t.isOptional, t.isExtension)
              /\ t.isExtension = (fullName # <<>>
                                    /\ fullName[Len(fullName)] = "$")
              /\ \A b \in PlainBases, a, o, e \in BOOLEAN :
                    fullName = b \o Markers(a, o, e) =>
                        /\ t.name = b
                        /\ t.isArray = a
                        /\ t.isOptional = o
                        /\ t.isExtension = e
    /\ (rendered.some /\ IsCanonical(fullName)) => rendered.val = fullName

C7_Witness ==
    /\ fullName = <<"f", "[", "]", "?", "$">>
    /\ rendered.some
    /\ rendered.val = fullName
    /\ parsed.val.name = <<"f">>
    /\ parsed.val.isArray /\ parsed.val.isOptional /\ parsed.val.isExtension

(***************************************************************************)
(* Claims about the struct flattener (FlattenSpec).                        *)
(***************************************************************************)
\* The structs on the base chain of `name`, the named struct first, at most
\* `fuel` of them.
RECURSIVE baseChain(_, _)
baseChain(name, fuel) ==
    LET s == getStruct(name)
    IN  IF fuel = 0 \/ ~s.some THEN <<>>
        ELSE <<s.val>> \o baseChain(s.val.base, fuel - 1)

\* No struct name occurs twice on the base chain of `name`.
Acyclic(name) ==
    LET c == baseChain(name, Len(abi.structs) + 1)
    IN  \A i, j \in DOMAIN c : i # j => c[i].name # c[j].name

RECURSIVE baseFirst(_)
baseFirst(c) ==
    IF c = <<>> THEN <<>> ELSE baseFirst(Tail(c)) \o Head(c).fields

\* C2: for an existing struct with an acyclic base chain, resolveStruct
\* returns the own field lists of the structs on the chain concatenated,
\* base-most struct first and the named struct last, each list in declared
\* order; a base name that matches no struct ends the chain.
C2_BaseFirstFields ==
    (flat.called /\ getStruct(structName).some /\ Acyclic(structName)) =>
        flat.result
            = Some(baseFirst(baseChain(structName, Len(abi.structs))))

\* D = f with base B = g, B declaring [x, y] and D declaring [z].
C2_Witness ==
    /\ flat.called
    /\ structName = <<"f">>
    /\ Len(abi.structs) = 2
    /\ abi.structs[1].name = <<"f">> /\ abi.structs[1].base = <<"g">>
    /\ abi.structs[2].name = <<"g">> /\ abi.structs[2].base = <<>>
    /\ [i \in 1..Len(abi.structs[2].fields)
            |-> abi.structs[2].fields[i].name] = <<"x", "y">>
    /\ [i \in 1..Len(abi.structs[1].fields)
            |-> abi.structs[1].fields[i].name] = <<"z">>
    /\ flat.result.some
    /\ [i \in 1..Len(flat.result.val) |-> flat.result.val[i].name]
            = <<"x", "y", "z">>

(***************************************************************************)
(* Claims about the Variant value (VariantSpec).                           *)
(***************************************************************************)
CanonicalNames == [i \in DOMAIN abiVariant |-> abiTypeString(abiVariant[i])]

\* C5: construction from (tag, payload) succeeds exactly when the tag is the
\* canonical name of some entry of the declared list, and then variantIdx
\* is the 0-based position of an entry with that name, within the list;
\* otherwise it fails with the Unknown-variant error and no value.
C5_VariantConstruction ==
    variantObj.status # "none" =>
        LET tag == variantArg[1]
            matches == {i \in DOMAIN abiVariant : CanonicalNames[i] = tag}
        IN  /\ (variantObj.status = "ok") = (matches # {})
            /\ variantObj.status = "ok" =>
                  /\ 0 <= variantObj.variantIdx
                  /\ variantObj.variantIdx < Len(abiVariant)
                  /\ variantObj.variantIdx + 1 \in matches
                  /\ variantObj.value = variantArg[2]
            /\ variantObj.status # "ok" =>
                  variantObj.status = "Unknown variant"

\* The list [f, g] and the tag g give variantIdx 1.
C5_Witness ==
    /\ Len(abiVariant) = 2
    /\ CanonicalNames = <<<<"f">>, <<"g">>>>
    /\ variantArg[1] = <<"g">>
    /\ variantObj.status = "ok"
    /\ variantObj.variantIdx = 1

\* C6 as stated: a value constructed with the canonical name of the i-th
\* alternative as its tag has variantIdx = i, and variantName gives the tag.
C6_ExactInverse ==
    \A i \in 0..(Len(abiVariant) - 1) :
        (variantObj.status # "none" /\ variantArg[1] = CanonicalNames[i + 1])
            => /\ variantObj.status = "ok"
               /\ variantObj.variantIdx = i
               /\ vname.some => vname.val = variantArg[1]

\* C6 amended: the value has variantIdx = the first position whose canonical
\* name is the tag (which is i when no earlier alternative has the same
\* canonical name), and variantName gives exactly the tag.
C6_FirstMatchInverse ==
    \A i \in 0..(Len(abiVariant) - 1) :
        (variantObj.status # "none" /\ variantArg[1] = CanonicalNames[i + 1])
            => /\ variantObj.status = "ok"
               /\ variantObj.variantIdx
                     = Min({j \in 0..i : CanonicalNames[j + 1] = variantArg[1]})
               /\ (\A j \in 0..(i - 1) : CanonicalNames[j + 1] # variantArg[1])
                     => variantObj.variantIdx = i
               /\ vname.some => vname.val = variantArg[1]

C6_Witness ==
    /\ variantObj.status = "ok"
    /\ variantObj.variantIdx = 1
    /\ abiVariant[2].array
    /\ vname.some
    /\ vname.val = variantArg[1]

(***************************************************************************)
(* Claims about the type resolver (Spec, FairSpec, TwoCallSpec).           *)
(***************************************************************************)
\* The type names resolve asks for while it resolves the children of a node
\* made for the full name n.
childNames(n) ==
    LET base == ResolvedType(n, 0).name
        alias == findAlias(base)
        fields == resolveStruct(base)
        variant == getVariant(base)
    IN  IF alias.some THEN {alias.val.type}
        ELSE IF fields.some
        THEN {fields.val[i].type : i \in DOMAIN fields.val}
        ELSE IF variant.some
        THEN {variant.val.types[i] : i \in DOMAIN variant.val.types}
        ELSE {}

RECURSIVE reachableNames(_)
reachableNames(S) ==
    LET T == S \cup UNION {childNames(n) : n \in S}
    IN  IF T = S THEN S ELSE reachableNames(T)

\* The nodes a node refers to.
children(r) ==
    LET t == heap[r]
    IN  (IF t.ref.some THEN {t.ref.val} ELSE {})
        \cup (IF t.fields.some
              THEN {t.fields.val[i].type : i \in DOMAIN t.fields.val}
              ELSE {})
        \cup (IF t.variant.some
              THEN {t.variant.val[i] : i \in DOMAIN t.variant.val}
              ELSE {})

RECURSIVE closure(_)
closure(S) ==
    LET T == S \cup UNION {children(r) : r \in S}
    IN  IF T = S THEN S ELSE closure(T)

descendants(r) == closure(children(r))

\* The call that made the node has returned.
complete(r) == \A i \in DOMAIN stack : stack[i].type # r

done == pc = "idle" /\ returned # <<>>

isLeaf(t) == ~t.ref.some /\ ~t.fields.some /\ ~t.variant.some

\* The children still to be resolved by the calls on the stack.
RECURSIVE pending(_)
pending(stk) ==
    IF stk = <<>> THEN 0
    ELSE Len(Head(stk).items) - Len(Head(stk).done) + pending(Tail(stk))

\* No node has more children than this.
MaxKids == MaxStructs * MaxFields + MaxAlts + 1

\* The type names the schema and the request mention.
schemaNames(req) ==
    {req}
    \cup {abi.types[i].type : i \in DOMAIN abi.types}
    \cup UNION {{abi.structs[i].fields[j].type :
                    j \in DOMAIN abi.structs[i].fields} :
                i \in DOMAIN abi.structs}
    \cup UNION {{abi.variants[i].types[j] :
                    j \in DOMAIN abi.variants[i].types} :
                i \in DOMAIN abi.variants}

\* What is left of a pass: the type names that have no node yet, then the
\* children still to be resolved, then the position in resolve.
measure(req, tys, stk, p) ==
    (2 * MaxKids + 2) * Cardinality(schemaNames(req) \ DOMAIN tys)
    + 2 * pending(stk)
    + (IF p = "idle" THEN 0 ELSE IF p = "resolve" THEN 1 ELSE 2)

\* C1: on every schema and for every requested name a resolveType call
\* that has begun returns.  Every step of the pass brings it nearer to its
\* end, because a new node is put in the cache before its children are
\* resolved and so each type name gets a node once; the nodes created in
\* the pass are at most as many as the type-name strings reachable from the
\* request.
C1_Terminates ==
    /\ [](ctx.id <= Cardinality(reachableNames({request})))
    /\ [](Len(heap) = ctx.id)
    /\ [][pc # "idle" =>
            measure(request', types', stack', pc')
                < measure(request, types, stack, pc)]_vars
    /\ (pc # "idle") ~> done

\* A finished pass over a schema with a cycle: two nodes refer to each
\* other.
C1_Witness ==
    /\ done
    /\ \E r, q \in DOMAIN heap :
          r # q /\ q \in children(r) /\ r \in children(q)

\* The base chain of the existing struct `name` comes back to `name`.
cyclesBack(name) ==
    LET c == baseChain(name, Len(abi.structs))
    IN  \E i \in DOMAIN c : c[i].base = name

callsOfFoo ==
    {p \in (DOMAIN returned) \X (DOMAIN returned) :
        /\ returned[p[1]].name = <<"f">>
        /\ returned[p[2]].name = <<"f", "[", "]">>}

\* C4 as stated: the two returned nodes are distinct, with different ids and
\* different typeNames, and both have base name "f".
C4_DifferentIds ==
    \A p \in callsOfFoo :
        LET a == returned[p[1]].type
            b == returned[p[2]].type
        IN  /\ a # b
            /\ heap[a].id # heap[b].id
            /\ typeName(heap[a]) # typeName(heap[b])
            /\ heap[a].name = <<"f">> /\ heap[b].name = <<"f">>

\* C4 amended: the two returned nodes are distinct objects with different
\* typeNames ("f" and "f[]") and the base name "f"; each is the first node
\* of its own pass, so both have id 1.
C4_DistinctNodesSameId ==
    \A p \in callsOfFoo :
        LET a == returned[p[1]].type
            b == returned[p[2]].type
        IN  /\ a # b
            /\ heap[a].id = 1 /\ heap[b].id = 1
            /\ typeName(heap[a]) = <<"f">>
            /\ typeName(heap[b]) = <<"f", "[", "]">>
            /\ heap[a].name = <<"f">> /\ heap[b].name = <<"f">>

C4_Witness == pc = "idle" /\ callsOfFoo # {}

\* An existing struct with an empty field list and no base.
emptyStruct(name) ==
    /\ getStruct(name).some
    /\ getStruct(name).val.fields = <<>>
    /\ getStruct(name).val.base = <<>>

\* C8 as stated: resolveStruct, and the node resolve builds, report a
\* struct with a cyclic base chain exactly as an existing struct with an
\* empty field list and no base.
C8_Indistinguishable ==
    done =>
        /\ \A c, e \in BaseNames :
              (cyclesBack(c) /\ emptyStruct(e)) =>
                  resolveStruct(c) = resolveStruct(e)
        /\ \A r, q \in DOMAIN heap :
              (/\ cyclesBack(heap[r].name)
               /\ emptyStruct(heap[q].name)
               /\ ~findAlias(heap[r].name).some
               /\ ~findAlias(heap[q].name).some) =>
                  heap[r].fields = heap[q].fields

\* C8 amended: resolveStruct reports a cyclic base chain as absent, exactly
\* as a name that matches no struct, and the node built for it has no
\* fields member; an existing struct with an empty field list and no base
\* is reported as a present, empty list, and the node built for it has an
\* empty fields list: a caller can tell the two apart.
C8_AbsentVersusEmpty ==
    /\ \A c \in BaseNames :
          cyclesBack(c) =>
              /\ resolveStruct(c) = Undefined
              /\ \A u \in BaseNames :
                    ~getStruct(u).some => resolveStruct(u) = resolveStruct(c)
    /\ \A e \in BaseNames : emptyStruct(e) => resolveStruct(e) = Some(<<>>)
    /\ \A r \in DOMAIN heap :
          (complete(r) /\ ~findAlias(heap[r].name).some) =>
              /\ cyclesBack(heap[r].name) => heap[r].fields = Undefined
              /\ emptyStruct(heap[r].name) => heap[r].fields = Some(<<>>)

\* One pass has built a node for a struct with a cyclic base chain and a
\* node for an empty struct.
C8_Witness ==
    /\ done
    /\ \E r, q \in DOMAIN heap :
          /\ cyclesBack(heap[r].name) /\ ~findAlias(heap[r].name).some
          /\ emptyStruct(heap[q].name) /\ ~findAlias(heap[q].name).some
          /\ heap[r].fields = Undefined
          /\ heap[q].fields = Some(<<>>)

\* The finished nodes of the pass for the full names "f" and "f[]".
nodesOfFoo ==
    {p \in (DOMAIN heap) \X (DOMAIN heap) :
        /\ typeName(heap[p[1]]) = <<"f">>
        /\ typeName(heap[p[2]]) = <<"f", "[", "]">>
        /\ complete(p[1]) /\ complete(p[2])}

\* C9 as stated: within one pass the nodes for "f" and "f[]" share no
\* descendant node (the two nodes themselves left aside).
C9_NoSharedDescendant ==
    \A p \in nodesOfFoo :
        (descendants(p[1]) \cap descendants(p[2])) \ {p[1], p[2]} = {}

\* C9 amended: within one pass "f" and "f[]" get one node each, two
\* distinct nodes with different ids, and each node's alias target, fields
\* or alternatives are looked up in the same cache: once both are filled in
\* they refer to the same child nodes, so every descendant is shared.
C9_SharedChildren ==
    /\ \A p, q \in nodesOfFoo : p = q
    /\ \A p \in nodesOfFoo :
          /\ p[1] # p[2]
          /\ heap[p[1]].id # heap[p[2]].id
          /\ heap[p[1]].ref = heap[p[2]].ref
          /\ heap[p[1]].fields = heap[p[2]].fields
          /\ heap[p[1]].variant = heap[p[2]].variant
          /\ descendants(p[1]) = descendants(p[2])

\* Both nodes are built and have a child.
C9_Witness ==
    /\ done
    /\ \E p \in nodesOfFoo :
          /\ descendants(p[1]) # {}
          /\ descendants(p[1]) \ {p[1], p[2]} # {}

cached == {types[k] : k \in DOMAIN types}

\* The state part of C10.
idsInDiscoveryOrder ==
    /\ \A k \in DOMAIN types : typeName(heap[types[k]]) = k
    /\ \A j, k \in DOMAIN types :
          j # k => /\ types[j] # types[k]
                   /\ heap[types[j]].id # heap[types[k]].id
    /\ {heap[r].id : r \in cached} = 1..Cardinality(DOMAIN types)
    /\ types # <<>> => (request \in DOMAIN types /\ heap[types[request]].id = 1)
    /\ \A i, j \in DOMAIN stack :
          i < j => heap[stack[i].type].id < heap[stack[j].type].id
    /\ \A r \in cached : \A q \in descendants(r) : q \in cached

\* The step part of C10: a name found in the cache costs no id and no node;
\* a new node gets the next id, larger than the id of every node whose
\* children are being resolved.
idsStep ==
    /\ (pc = "resolve" /\ arg \in DOMAIN types) =>
          (ctx' = ctx /\ types' = types /\ heap' = heap)
    /\ (pc = "resolve" /\ arg \notin DOMAIN types) =>
          /\ ctx'.id = ctx.id + 1
          /\ DOMAIN types' = DOMAIN types \cup {arg}
          /\ heap'[types'[arg]].id = ctx'.id
          /\ \A k \in DOMAIN types : types'[k] = types[k]
          /\ \A i \in DOMAIN stack : heap[stack[i].type].id < ctx'.id

\* C10: at every point of a pass the cached nodes have pairwise distinct ids
\* that are exactly 1..N, one node per full name, the root has id 1, a node
\* has a smaller id than the nodes created while its children are resolved,
\* and a cache hit consumes no id and creates no node.
C10_IdsInDiscoveryOrder == []idsInDiscoveryOrder /\ [][idsStep]_vars

\* A pass that made three nodes and met a cached name.
C10_Witness ==
    /\ done
    /\ Cardinality(DOMAIN types) = 3
    /\ \E r \in cached : \E q \in children(r) : heap[q].id < heap[r].id

====
